---- MODULE Spec2Model ----
(***************************************************************************)
(* State-machine model of the EncryptedOKRPlatformFHE contract             *)
(* (src/README.md, lines 98-264).  Ciphertexts (euint32 handles) are       *)
(* modelled by a plaintext mirror: a ciphertext is either Uninit (the      *)
(* all-zero handle, FHE.isInitialized = false) or the 32-bit value it      *)
(* encrypts.  Every transaction is one atomic action; a reverted           *)
(* transaction changes nothing but `last`, the receipt of the most recent  *)
(* call: its arguments, its outcome and the events it emitted.  The        *)
(* receipt's nonce alternates with every call, so that two identical       *)
(* consecutive calls are two distinct steps.                               *)
(*                                                                         *)
(* The web client's submitOKR (src/frontend/web/src/App.tsx, lines         *)
(* 184-276) is modelled beside it: two sessions of one account, each       *)
(* awaited call one step, over the key/value store the client reads and   *)
(* writes with getData and setData.                                        *)
(***************************************************************************)
EXTENDS Integers, Sequences, FiniteSets, TLC

\* ------------------------------------------------------------------ bounds
MaxOkrs == 2
MaxRequests == 1
MaxTime == 2
\* bounds of the request-centred specifications (SpecRequests, SpecFaithful)
MaxOkrsR == 2
MaxRequestsR == 2

\* calls of submitOKR the web client's sessions make
MaxClientSubmits == 3

\* ------------------------------------------------------- value universes
\* A uint32 is the pair <<hi, lo>> of its 16-bit halves (value hi * 2^16 + lo).
Pow16 == 65536

U32(hi, lo) == <<hi, lo>>

MaxUint32 == U32(Pow16 - 1, Pow16 - 1)

\* the uninitialized euint32 (handle bytes32(0))
Uninit == <<0 - 1, 0 - 1>>

\* msg.sender addresses
Owners == {"A", "B"}
NoOwner == "0x0"

\* bytes32 team identifiers; 0 is bytes32(0)
TeamIds == {0, 1}

\* encrypted inputs a caller may pass to submitEncryptedOKR
ProgressValues == {Uninit, U32(0, 40), MaxUint32}
ObjectiveValues == {U32(0, 5)}
KeyResultValues == {U32(0, 9)}

\* decoded uint32 cleartexts an oracle callback may carry
ClearValues == {U32(0, 100), U32(0, 7)}

OkrIds == 0 .. (MaxOkrs + 1)
RequestIds == 0 .. (MaxRequests + MaxRequestsR)

VARIABLES
    okrCount,          \* uint256 public okrCount
    encryptedOkrs,     \* mapping(uint256 => EncryptedOKR)
    teamAggregates,    \* mapping(bytes32 => EncryptedAggregate)
    teamMembers,       \* mapping(bytes32 => address[])
    requestToTeamId,   \* mapping(uint256 => bytes32)
    counterRequest,    \* FHE library: next decryption request id
    requestedHandles,  \* FHE library: request id -> ciphertext sent to the oracle
    now,               \* block.timestamp
    fulfilled,         \* history: request ids whose callback has completed
    recordsAtRecompute,\* history: okrCount at the team's last recompute, -1 if none
    last,              \* receipt of the most recent call: arguments, outcome, events
    \* the web client (src/frontend/web/src/App.tsx) and the key/value store
    \* it reads and writes with getData and setData
    okrBlobs,          \* ids k for which okr_<k> holds data
    okrKeys,           \* the bytes stored under okr_keys_<account>
    sessionPc,         \* per session: the awaited call submitOKR is at
    sessionOkrId,      \* per session: const okrId
    sessionKeys,       \* per session: let keys
    idsGenerated,      \* number of okrIds generated so far
    submitted          \* history: okrIds whose submitOKR ran to completion

vars == <<okrCount, encryptedOkrs, teamAggregates, teamMembers, requestToTeamId,
          counterRequest, requestedHandles, now, fulfilled, recordsAtRecompute,
          last, okrBlobs, okrKeys, sessionPc, sessionOkrId, sessionKeys,
          idsGenerated, submitted>>

\* the web client's variables and the key/value store
client == <<okrBlobs, okrKeys, sessionPc, sessionOkrId, sessionKeys,
            idsGenerated, submitted>>

\* the contract's storage together with the library's
store == <<okrCount, encryptedOkrs, teamAggregates, teamMembers, requestToTeamId,
           counterRequest, requestedHandles, fulfilled, recordsAtRecompute>>

\* ------------------------------------------------- ciphertext capability
isInitialized(c) == c # Uninit

\* trivial encryption of a small literal n < 2^16
asEuint32(n) == U32(0, n % Pow16)

\* mutant of FHEadd: the addition saturates at 2^32 - 1 instead of wrapping
FHEaddSaturating(a, b) ==
    LET x == IF a # Uninit THEN a ELSE <<0, 0>>
        y == IF b # Uninit THEN b ELSE <<0, 0>>
        lo == x[2] + y[2]
        hi == x[1] + y[1] + (lo \div Pow16)
    IN  IF hi >= Pow16 THEN <<Pow16 - 1, Pow16 - 1>> ELSE <<hi, lo % Pow16>>

\* FHE.add on euint32: an uninitialized operand is taken as zero; the sum wraps
\* at 32 bits (carry from the low half into the high half, high carry dropped)
FHEadd(a, b) ==
    LET x == IF isInitialized(a) THEN a ELSE asEuint32(0)
        y == IF isInitialized(b) THEN b ELSE asEuint32(0)
        lo == x[2] + y[2]
        hi == x[1] + y[1] + (lo \div Pow16)
    IN  U32(hi % Pow16, lo % Pow16)

toBytes32(c) == c

\* ------------------------------------------------------ storage defaults
EmptyOKR ==
    [id |-> 0, owner |-> NoOwner, encryptedObjective |-> Uninit,
     encryptedKeyResults |-> Uninit, encryptedProgress |-> Uninit, timestamp |-> 0]

EmptyAggregate ==
    [idHash |-> 0, encryptedSum |-> Uninit, lastUpdated |-> 0]

NoCall ==
    [op |-> "none", team |-> 0, req |-> 0, clear |-> U32(0, 0), valid |-> FALSE,
     result |-> "ok", adds |-> 0, events |-> <<>>, nonce |-> 0, sender |-> NoOwner]

Call(op, team, req, clear, valid, result, adds, emitted) ==
    [op |-> op, team |-> team, req |-> req, clear |-> clear, valid |-> valid,
     result |-> result, adds |-> adds, events |-> emitted,
     nonce |-> 1 - last.nonce, sender |-> NoOwner]

\* the receipt of a call whose msg.sender the contract reads or guards on
CallBy(sender, receipt) == [receipt EXCEPT !.sender = sender]

\* ------------------------------------------------------------------ events
OKRSubmitted(id, owner, timestamp) ==
    [name |-> "OKRSubmitted", id |-> id, owner |-> owner, timestamp |-> timestamp]

TeamAggregated(teamId, timestamp) ==
    [name |-> "TeamAggregated", teamId |-> teamId, timestamp |-> timestamp]

DecryptionRequested(requestId) ==
    [name |-> "DecryptionRequested", requestId |-> requestId]

AggregateDecrypted(teamId, clearValue) ==
    [name |-> "AggregateDecrypted", teamId |-> teamId, clearValue |-> clearValue]

\* ------------------------------------------------------------------- Init
\* two browser sessions of the same account
Sessions == {"s1", "s2"}

\* getData of a key never written: zero-length bytes
NoData == [length |-> 0]

\* nothing stored, no submitOKR under way
InitClient ==
    /\ okrBlobs = {}
    /\ okrKeys = NoData
    /\ sessionPc = [s \in Sessions |-> "idle"]
    /\ sessionOkrId = [s \in Sessions |-> 0]
    /\ sessionKeys = [s \in Sessions |-> <<>>]
    /\ idsGenerated = 0
    /\ submitted = {}

Init ==
    /\ okrCount = 0
    /\ encryptedOkrs = [i \in OkrIds |-> EmptyOKR]
    /\ teamAggregates = [t \in TeamIds |-> EmptyAggregate]
    /\ teamMembers = [t \in TeamIds |-> <<>>]
    /\ requestToTeamId = [r \in RequestIds |-> 0]
    /\ counterRequest = 0
    /\ requestedHandles = [r \in RequestIds |-> Uninit]
    /\ now = 1
    /\ fulfilled = {}
    /\ recordsAtRecompute = [t \in TeamIds |-> 0 - 1]
    /\ last = NoCall
    /\ InitClient

\* --------------------------------------------------- submitEncryptedOKR
\* mutant of NewOkrId: after the first record the counter is not advanced,
\* so a submission overwrites the newest record
NewOkrIdInPlace == IF okrCount = 0 THEN 1 ELSE okrCount

\* mutant of NewOkrId: the counter is incremented twice
NewOkrIdSkipping == okrCount + 2

NewOkrId == okrCount + 1

\* mutant of PushMember: the registry is set-like (an owner is listed once)
PushMemberOnce(members, sender) ==
    IF \E i \in 1 .. Len(members) : members[i] = sender
    THEN members
    ELSE Append(members, sender)

\* mutant of PushMember: the pushed address is read from the record slot
\* before the record is written there (address(0))
PushMemberFromSlot(members, sender) ==
    Append(members, encryptedOkrs[okrCount + 1].owner)

\* teamMembers[teamId].push(msg.sender)
PushMember(members, sender) == Append(members, sender)

submitEncryptedOKR(sender, encryptedObjective, encryptedKeyResults, encryptedProgress, teamId) ==
    /\ LET newId == NewOkrId IN
        /\ okrCount' = newId
        /\ encryptedOkrs' = [encryptedOkrs EXCEPT ![newId] =
              [id |-> newId, owner |-> sender,
               encryptedObjective |-> encryptedObjective,
               encryptedKeyResults |-> encryptedKeyResults,
               encryptedProgress |-> encryptedProgress,
               timestamp |-> now]]
        /\ teamMembers' = [teamMembers EXCEPT ![teamId] = PushMember(@, sender)]
        /\ last' = CallBy(sender,
                      Call("submitEncryptedOKR", teamId, 0, U32(0, 0), FALSE, "ok", 0,
                           <<OKRSubmitted(newId, sender, now)>>))
    /\ UNCHANGED <<teamAggregates, requestToTeamId, counterRequest,
                   requestedHandles, now, fulfilled, recordsAtRecompute>>

\* ------------------------------------------- findLatestEncryptedProgress
\* mutant of ScanFrom: the scan returns the oldest record of the owner
RECURSIVE ScanOldestBelow(_, _, _, _)
ScanOldestBelow(okrs, owner, i, top) ==
    IF i > top THEN asEuint32(0)
    ELSE IF okrs[i].owner = owner
         THEN okrs[i].encryptedProgress
         ELSE ScanOldestBelow(okrs, owner, i + 1, top)

ScanOldest(okrs, owner, i) == ScanOldestBelow(okrs, owner, 1, i)

\* mutant of ScanFrom: the scan starts one record below the newest
\* (i = okrCount - 1)
RECURSIVE ScanBelow(_, _, _)
ScanBelow(okrs, owner, i) ==
    IF i < 1 THEN asEuint32(0)
    ELSE IF okrs[i].owner = owner
         THEN okrs[i].encryptedProgress
         ELSE ScanBelow(okrs, owner, i - 1)

ScanSkipNewest(okrs, owner, i) == ScanBelow(okrs, owner, i - 1)

\* the loop of lines 234-242 over the records `okrs`, from index i downwards
RECURSIVE ScanFrom(_, _, _)
ScanFrom(okrs, owner, i) ==
    IF i >= 1
    THEN IF okrs[i].owner = owner
         THEN okrs[i].encryptedProgress
         ELSE IF i = 1 THEN asEuint32(0) ELSE ScanFrom(okrs, owner, i - 1)
    ELSE asEuint32(0)

\* mutant of ScanVisits: the loop runs while i >= 0 and has no break at
\* i == 1; after reading slot 0 the decrement underflows (index -1)
RECURSIVE ScanVisitsToZero(_, _, _)
ScanVisitsToZero(okrs, owner, i) ==
    IF i >= 0
    THEN IF okrs[i].owner = owner
         THEN <<i>>
         ELSE <<i>> \o ScanVisitsToZero(okrs, owner, i - 1)
    ELSE <<i>>

\* the indices the loop of lines 234-242 reads, in order, from index i down
RECURSIVE ScanVisits(_, _, _)
ScanVisits(okrs, owner, i) ==
    IF i >= 1
    THEN IF okrs[i].owner = owner
         THEN <<i>>
         ELSE IF i = 1 THEN <<i>> ELSE <<i>> \o ScanVisits(okrs, owner, i - 1)
    ELSE <<>>

findLatestEncryptedProgress(okrs, owner) == ScanFrom(okrs, owner, okrCount)

\* ------------------------------------------------ recomputeTeamAggregate
\* mutant of AccInit: the accumulator starts from the stored aggregate
AccInitFromStored(teamId) ==
    IF isInitialized(teamAggregates[teamId].encryptedSum)
    THEN teamAggregates[teamId].encryptedSum
    ELSE asEuint32(0)

\* mutant of AccInit: the accumulator is declared but not assigned
AccInitUnassigned(teamId) == Uninit

\* euint32 acc = FHE.asEuint32(0)
AccInit(teamId) == asEuint32(0)

\* mutant of AccumulateFrom: the loop stops one entry early
\* (i < members.length - 1)
RECURSIVE AccumulateSkipLast(_, _, _, _, _)
AccumulateSkipLast(okrs, members, i, acc, adds) ==
    IF i >= Len(members)
    THEN [acc |-> acc, adds |-> adds]
    ELSE LET memberProgress == ScanFrom(okrs, members[i], okrCount) IN
         IF isInitialized(memberProgress)
         THEN AccumulateSkipLast(okrs, members, i + 1,
                                 FHEadd(acc, memberProgress), adds + 1)
         ELSE AccumulateSkipLast(okrs, members, i + 1, acc, adds)

\* mutant of AccumulateFrom: the first member's progress is taken as the
\* accumulator without the isInitialized test
RECURSIVE AccumulateFirstUnguarded(_, _, _, _, _)
AccumulateFirstUnguarded(okrs, members, i, acc, adds) ==
    IF i > Len(members)
    THEN [acc |-> acc, adds |-> adds]
    ELSE LET memberProgress == ScanFrom(okrs, members[i], okrCount) IN
         IF i = 1
         THEN AccumulateFirstUnguarded(okrs, members, i + 1, memberProgress, adds)
         ELSE IF isInitialized(memberProgress)
         THEN AccumulateFirstUnguarded(okrs, members, i + 1,
                                       FHEadd(acc, memberProgress), adds + 1)
         ELSE AccumulateFirstUnguarded(okrs, members, i + 1, acc, adds)

\* the loop of lines 182-189 from index i on: the accumulator and the number
\* of FHE.add calls performed
RECURSIVE AccumulateFrom(_, _, _, _, _)
AccumulateFrom(okrs, members, i, acc, adds) ==
    IF i > Len(members)
    THEN [acc |-> acc, adds |-> adds]
    ELSE LET memberProgress == findLatestEncryptedProgress(okrs, members[i]) IN
         IF isInitialized(memberProgress)
         THEN AccumulateFrom(okrs, members, i + 1, FHEadd(acc, memberProgress),
                             adds + 1)
         ELSE AccumulateFrom(okrs, members, i + 1, acc, adds)

\* mutant of AssignAggregate: the new aggregate is written to every team's slot
AssignAggregateEverywhere(aggs, teamId, agg) == [t \in DOMAIN aggs |-> agg]

\* teamAggregates[teamId] = EncryptedAggregate({...})
AssignAggregate(aggs, teamId, agg) == [aggs EXCEPT ![teamId] = agg]

recomputeTeamAggregate(teamId) ==
    /\ LET r == AccumulateFrom(encryptedOkrs, teamMembers[teamId], 1,
                               AccInit(teamId), 0) IN
        /\ teamAggregates' = AssignAggregate(teamAggregates, teamId,
              [idHash |-> teamId, encryptedSum |-> r.acc, lastUpdated |-> now])
        /\ last' = Call("recomputeTeamAggregate", teamId, 0, U32(0, 0), FALSE, "ok",
                        r.adds, <<TeamAggregated(teamId, now)>>)
    /\ recordsAtRecompute' = [recordsAtRecompute EXCEPT ![teamId] = okrCount]
    /\ UNCHANGED <<okrCount, encryptedOkrs, teamMembers, requestToTeamId,
                   counterRequest, requestedHandles, now, fulfilled>>

\* ---------------------------------------- requestTeamAggregateDecryption
\* mutant of HasAggregate: the require is missing
HasAggregateUnchecked(teamId) == TRUE

HasAggregate(teamId) == isInitialized(teamAggregates[teamId].encryptedSum)

\* modifier onlyTeamMember(teamId): a stub, every caller passes
onlyTeamMember(sender, teamId) == TRUE

\* mutant of PackagedCiphertext: the aggregate is recomputed when packaged
PackagedFresh(teamId) ==
    toBytes32(AccumulateFrom(encryptedOkrs, teamMembers[teamId], 1,
                             AccInit(teamId), 0).acc)

\* mutant of PackagedCiphertext: a fresh zero is packaged
PackagedZero(teamId) == toBytes32(asEuint32(0))

\* mutant of NewRequestId: the oracle hands out the previous id again
NewRequestIdReused == IF counterRequest = 0 THEN 0 ELSE counterRequest - 1

\* uint256 reqId = FHE.requestDecryption(...): the oracle library numbers its
\* requests consecutively
NewRequestId == counterRequest

\* ciphertexts[0] = FHE.toBytes32(agg.encryptedSum)
PackagedCiphertext(teamId) == toBytes32(teamAggregates[teamId].encryptedSum)

requestTeamAggregateDecryption(sender, teamId) ==
    IF ~onlyTeamMember(sender, teamId)
    THEN /\ last' = CallBy(sender,
                       Call("requestTeamAggregateDecryption", teamId, 0, U32(0, 0),
                            FALSE, "Unauthorized", 0, <<>>))
         /\ UNCHANGED <<store, now>>
    ELSE IF ~HasAggregate(teamId)
    THEN /\ last' = CallBy(sender,
                       Call("requestTeamAggregateDecryption", teamId, 0, U32(0, 0),
                            FALSE, "No aggregate", 0, <<>>))
         /\ UNCHANGED <<store, now>>
    ELSE /\ LET reqId == NewRequestId IN
             /\ requestedHandles' = [requestedHandles EXCEPT ![reqId] =
                   PackagedCiphertext(teamId)]
             /\ counterRequest' = counterRequest + 1
             /\ requestToTeamId' = [requestToTeamId EXCEPT ![reqId] = teamId]
             /\ last' = CallBy(sender,
                           Call("requestTeamAggregateDecryption", teamId, reqId,
                                U32(0, 0), FALSE, "ok", 0,
                                <<DecryptionRequested(reqId)>>))
         /\ UNCHANGED <<okrCount, encryptedOkrs, teamAggregates, teamMembers,
                        now, fulfilled, recordsAtRecompute>>

\* --------------------------------------------------- decryptTeamAggregate
\* mutant of KnownTeam: the guard tests the aggregate's ciphertext, not its idHash
KnownTeamBySum(teamId) == isInitialized(teamAggregates[teamId].encryptedSum)

KnownTeam(teamId) == teamAggregates[teamId].idHash # 0

\* mutant of TeamOfRequest: the team of the most recent request is used
TeamOfLatestRequest(requestId) ==
    IF counterRequest = 0 THEN 0 ELSE requestToTeamId[counterRequest - 1]

\* bytes32 teamId = requestToTeamId[requestId]
TeamOfRequest(requestId) == requestToTeamId[requestId]

decryptTeamAggregate(requestId, clearValue, proofValid) ==
    LET teamId == TeamOfRequest(requestId) IN
    IF ~KnownTeam(teamId)
    THEN /\ last' = Call("decryptTeamAggregate", teamId, requestId, clearValue,
                         proofValid, "Invalid team", 0, <<>>)
         /\ UNCHANGED <<store, now>>
    ELSE IF ~proofValid
    THEN /\ last' = Call("decryptTeamAggregate", teamId, requestId, clearValue,
                         proofValid, "InvalidSignatures", 0, <<>>)
         /\ UNCHANGED <<store, now>>
    ELSE /\ fulfilled' = fulfilled \cup {requestId}
         /\ last' = Call("decryptTeamAggregate", teamId, requestId, clearValue,
                         proofValid, "ok", 0,
                         <<AggregateDecrypted(teamId, clearValue)>>)
         /\ UNCHANGED <<okrCount, encryptedOkrs, teamAggregates, teamMembers,
                        requestToTeamId, counterRequest, requestedHandles, now,
                        recordsAtRecompute>>

\* ------------------------------------------------------------ environment
AdvanceTime ==
    /\ now < MaxTime
    /\ now' = now + 1
    /\ UNCHANGED <<store, last, client>>

\* ------------------------------------------------- web client: submitOKR
\* const okrId = `${Date.now()}-${Math.random()...}`: a new id on every call
NewClientOkrId == idsGenerated + 1

\* ethers.toUtf8Bytes(JSON.stringify(keys)): never of length zero
toUtf8Json(keys) == [length |-> 2 + Len(keys), json |-> keys]

\* lines 225-233: the key list is parsed from the bytes unless they are empty
parseKeys(keysBytes) == IF keysBytes.length > 0 THEN keysBytes.json ELSE <<>>

\* mutant of StepAfter: the key index is read and written before the blob
StepAfterKeysFirst(pc) ==
    CASE pc = "idle" -> "getKeys"
      [] pc = "getKeys" -> "setKeys"
      [] pc = "setKeys" -> "setBlob"
      [] OTHER -> "idle"

\* the awaited calls of submitOKR in program order: setData(okr_<id>) at
\* line 219, getData(okr_keys) at line 224, setData(okr_keys) at line 237,
\* then the function completes
StepAfter(pc) ==
    CASE pc = "idle" -> "setBlob"
      [] pc = "setBlob" -> "getKeys"
      [] pc = "getKeys" -> "setKeys"
      [] OTHER -> "idle"

\* session s moves on from the awaited call it is at; reaching the end of
\* the try block completes the submission
Proceed(s) ==
    LET after == StepAfter(sessionPc[s]) IN
    /\ sessionPc' = [sessionPc EXCEPT ![s] = after]
    /\ submitted' = IF after = "idle"
                    THEN submitted \cup {sessionOkrId[s]}
                    ELSE submitted

\* lines 184-216: a call of submitOKR starts and picks its okrId
submitOKR(s) ==
    /\ sessionPc[s] = "idle"
    /\ idsGenerated' = idsGenerated + 1
    /\ sessionOkrId' = [sessionOkrId EXCEPT ![s] = NewClientOkrId]
    /\ sessionKeys' = [sessionKeys EXCEPT ![s] = <<>>]
    /\ sessionPc' = [sessionPc EXCEPT ![s] = StepAfter("idle")]
    /\ UNCHANGED <<okrBlobs, okrKeys, submitted>>

\* lines 219-222: await contract.setData(`okr_${okrId}`, ...)
setDataOkr(s) ==
    /\ sessionPc[s] = "setBlob"
    /\ okrBlobs' = okrBlobs \cup {sessionOkrId[s]}
    /\ Proceed(s)
    /\ UNCHANGED <<okrKeys, sessionOkrId, sessionKeys, idsGenerated>>

\* lines 224-233: keys = parse(await contract.getData(`okr_keys_${account}`))
getDataKeys(s) ==
    /\ sessionPc[s] = "getKeys"
    /\ sessionKeys' = [sessionKeys EXCEPT ![s] = parseKeys(okrKeys)]
    /\ Proceed(s)
    /\ UNCHANGED <<okrBlobs, okrKeys, sessionOkrId, idsGenerated>>

\* lines 235-240: keys.push(okrId); await contract.setData(`okr_keys_...`, keys)
setDataKeys(s) ==
    /\ sessionPc[s] = "setKeys"
    /\ okrKeys' = toUtf8Json(Append(sessionKeys[s], sessionOkrId[s]))
    /\ Proceed(s)
    /\ UNCHANGED <<okrBlobs, sessionOkrId, sessionKeys, idsGenerated>>

\* lines 259-275: the awaited call throws (rejected or failed transaction,
\* network error); the catch block reports it and submitOKR ends
submitOKRFails(s) ==
    /\ sessionPc[s] # "idle"
    /\ sessionPc' = [sessionPc EXCEPT ![s] = "idle"]
    /\ UNCHANGED <<okrBlobs, okrKeys, sessionOkrId, sessionKeys, idsGenerated,
                   submitted>>

\* ------------------------------------------------------------ view helpers
getEncryptedOKR(okrId) ==
    LET e == encryptedOkrs[okrId] IN
    [result |-> "ok",
     value |-> <<e.id, e.owner, e.encryptedObjective, e.encryptedKeyResults,
                 e.encryptedProgress, e.timestamp>>]

getEncryptedAggregate(teamId) ==
    LET a == teamAggregates[teamId] IN
    [result |-> "ok", value |-> <<a.encryptedSum, a.lastUpdated>>]

\* ------------------------------------------------------------------ calls
\* a successful request allocates a request id: at most `cap` are issued
RequestFits(teamId, cap) == HasAggregate(teamId) => counterRequest < cap

Submit ==
    \E sender \in Owners, o \in ObjectiveValues, k \in KeyResultValues,
       p \in ProgressValues, t \in TeamIds :
        /\ okrCount < MaxOkrs
        /\ submitEncryptedOKR(sender, o, k, p, t)
        /\ UNCHANGED client

Recompute == \E t \in TeamIds : recomputeTeamAggregate(t) /\ UNCHANGED client

RequestDecryption ==
    \E sender \in Owners, t \in TeamIds :
        /\ RequestFits(t, MaxRequests)
        /\ requestTeamAggregateDecryption(sender, t)
        /\ UNCHANGED client

Callback ==
    \E r \in 0 .. counterRequest, c \in ClearValues, v \in BOOLEAN :
        decryptTeamAggregate(r, c, v) /\ UNCHANGED client

Next == Submit \/ Recompute \/ RequestDecryption \/ Callback \/ AdvanceTime

Spec == Init /\ [][Next]_vars

\* ---------------------------------------- request-centred specifications
\* Several decryption requests in flight, fewer submissions, no clock.
SubmitR ==
    \E sender \in Owners, o \in ObjectiveValues, k \in KeyResultValues,
       p \in ProgressValues, t \in TeamIds :
        /\ okrCount < MaxOkrsR
        /\ submitEncryptedOKR(sender, o, k, p, t)
        /\ UNCHANGED client

RequestDecryptionR ==
    \E sender \in Owners, t \in TeamIds :
        /\ RequestFits(t, MaxRequestsR)
        /\ requestTeamAggregateDecryption(sender, t)
        /\ UNCHANGED client

NextRequests == SubmitR \/ Recompute \/ RequestDecryptionR \/ Callback

SpecRequests == Init /\ [][NextRequests]_vars

\* An oracle that decrypts faithfully: a proof verifies (FHE.checkSignatures,
\* line 224) only for the cleartext of the ciphertext sent with that request.
\* Anyone may still call back with a proof that does not verify.
CallbackFaithful ==
    \E r \in 0 .. counterRequest, v \in BOOLEAN :
        \E c \in ClearValues \cup ({requestedHandles[r]} \ {Uninit}) :
            /\ v => (r < counterRequest /\ c = requestedHandles[r])
            /\ decryptTeamAggregate(r, c, v)
            /\ UNCHANGED client

NextFaithful == SubmitR \/ Recompute \/ RequestDecryptionR \/ CallbackFaithful

SpecFaithful == Init /\ [][NextFaithful]_vars

\* ------------------------------------------------ the web client's sessions
\* Two sessions of one account run submitOKR, their awaited calls interleaved.
ClientSubmit ==
    \E s \in Sessions :
        /\ idsGenerated < MaxClientSubmits
        /\ submitOKR(s)
        /\ UNCHANGED <<store, now, last>>

ClientSetDataOkr == \E s \in Sessions : setDataOkr(s) /\ UNCHANGED <<store, now, last>>

ClientGetDataKeys == \E s \in Sessions : getDataKeys(s) /\ UNCHANGED <<store, now, last>>

ClientSetDataKeys == \E s \in Sessions : setDataKeys(s) /\ UNCHANGED <<store, now, last>>

ClientFails == \E s \in Sessions : submitOKRFails(s) /\ UNCHANGED <<store, now, last>>

NextClient ==
    \/ ClientSubmit
    \/ ClientSetDataOkr
    \/ ClientGetDataKeys
    \/ ClientSetDataKeys
    \/ ClientFails

SpecClient == Init /\ [][NextClient]_vars

\* ================================================================ claims
\* A step that is a call of `op` (AdvanceTime leaves the receipt alone).
CallStep(op) == last'.nonce # last.nonce /\ last'.op = op

\* ------------------------------------------------------- plaintext mirror
\* Unbounded naturals are pairs <<hi, lo>> with lo < 2^16 and hi unbounded.
SetMax(S) == CHOOSE x \in S : \A y \in S : y <= x

OwnedIds(owner) == {i \in 1 .. okrCount : encryptedOkrs[i].owner = owner}

\* plaintext of the progress of the greatest-id record of `owner`
\* (uninitialized or absent counts as 0)
LatestPlain(owner) ==
    IF OwnedIds(owner) = {}
    THEN <<0, 0>>
    ELSE LET p == encryptedOkrs[SetMax(OwnedIds(owner))].encryptedProgress
         IN  IF p = Uninit THEN <<0, 0>> ELSE p

RECURSIVE SumHalf(_, _, _)
SumHalf(members, n, half) ==
    IF n = 0 THEN 0
    ELSE SumHalf(members, n - 1, half) + LatestPlain(members[n])[half]

\* the exact (unbounded) sum over every entry of Membership[T]
PlainSum(teamId) ==
    LET members == teamMembers[teamId]
        hi == SumHalf(members, Len(members), 1)
        lo == SumHalf(members, Len(members), 2)
    IN  <<hi + (lo \div Pow16), lo % Pow16>>

Mod32(n) == <<n[1] % Pow16, n[2]>>

JustRecomputed == last.op = "recomputeTeamAggregate"

\* C1 (as claimed): after recompute(T) the stored aggregate's plaintext equals
\* the exact sum, over every entry of Membership[T], of the progress of the
\* entry owner's greatest-id record.
C1_AggregateIsExactSum ==
    JustRecomputed =>
        teamAggregates[last.team].encryptedSum = PlainSum(last.team)

\* C1 (amended): after recompute(T) the stored aggregate's plaintext equals
\* that sum modulo 2^32 (euint32 addition wraps), every entry of
\* Membership[T] counted once, duplicates included.
C1_AggregateIsSumMod32 ==
    JustRecomputed =>
        teamAggregates[last.team].encryptedSum = Mod32(PlainSum(last.team))

\* C1 witness: a recompute over a membership list that names one owner twice,
\* whose latest progress 40 is counted for both entries.
C1_Witness ==
    /\ JustRecomputed
    /\ \E a \in Owners :
          /\ Len(SelectSeq(teamMembers[last.team], LAMBDA m : m = a)) = 2
          /\ LatestPlain(a) = U32(0, 40)
          /\ teamAggregates[last.team].encryptedSum = U32(0, 80)

\* ------------------------------------------------------ oracle handshake
\* request ids returned so far by requestTeamAggregateDecryption
Issued == 0 .. (counterRequest - 1)

Pending == Issued \ fulfilled

\* C2: the first callback with a verifying proof for an issued request r, of
\* whatever team (the all-zero identifier included), succeeds, marks r
\* fulfilled and emits exactly AggregateDecrypted(team recorded for r, c).
C2_FirstValidCallbackSucceeds ==
    [][(CallStep("decryptTeamAggregate") /\ last'.valid /\ last'.req \in Pending)
         => /\ last'.result = "ok"
            /\ last'.req \in fulfilled'
            /\ last'.events =
                 <<AggregateDecrypted(requestToTeamId[last'.req], last'.clear)>>]_vars

\* C3: a callback with a verifying proof for an already fulfilled request
\* emits no event and changes no state.
C3_SecondCallbackIsNoOp ==
    [][(CallStep("decryptTeamAggregate") /\ last'.valid /\ last'.req \in fulfilled)
         => /\ last'.events = <<>>
            /\ UNCHANGED store]_vars

\* C4: a callback for a pending request whose proof fails verification is
\* rejected as an invalid proof, emits nothing and changes no state (the
\* request stays pending).
C4_InvalidProofRejected ==
    [][(CallStep("decryptTeamAggregate") /\ ~last'.valid /\ last'.req \in Pending)
         => /\ last'.result = "InvalidSignatures"
            /\ last'.events = <<>>
            /\ UNCHANGED store]_vars

\* C5: a callback naming a request id that was never issued is rejected as
\* unknown ("Invalid team"), emits nothing and changes no state, whatever
\* aggregates exist and whatever cleartext and proof it carries.
C5_UnknownRequestRejected ==
    [][(CallStep("decryptTeamAggregate") /\ last'.req \notin Issued)
         => /\ last'.result = "Invalid team"
            /\ last'.events = <<>>
            /\ UNCHANGED store]_vars

\* C5 witness: an unissued request id with a verifying proof was rejected
\* although an aggregate (that of the all-zero team) has been computed.
C5_Witness ==
    /\ last.op = "decryptTeamAggregate"
    /\ last.req \notin Issued
    /\ last.valid
    /\ last.result = "Invalid team"
    /\ recordsAtRecompute[0] >= 0
    /\ isInitialized(teamAggregates[0].encryptedSum)

\* C6: requestDecryption(T) for a team on which recompute never ran is
\* rejected ("No aggregate"): no request id is allocated, nothing is sent to
\* the oracle, no pending mapping is recorded and no event is emitted.
C6_EmptyAggregateRejected ==
    [][\A t \in TeamIds :
         (/\ CallStep("requestTeamAggregateDecryption")
          /\ last'.team = t
          /\ recordsAtRecompute[t] < 0)
         => /\ last'.result = "No aggregate"
            /\ last'.events = <<>>
            /\ UNCHANGED store]_vars

\* C6 witness: a request for a never-recomputed team that has submissions was
\* rejected while the other team's aggregate is computed.
C6_Witness ==
    /\ last.op = "requestTeamAggregateDecryption"
    /\ last.result = "No aggregate"
    /\ recordsAtRecompute[last.team] < 0
    /\ Len(teamMembers[last.team]) > 0
    /\ \E u \in TeamIds \ {last.team} :
          recordsAtRecompute[u] >= 0 /\ Len(teamMembers[u]) > 0

\* ------------------------------------------------------------ record ids
RECURSIVE TotalEntries(_)
TotalEntries(teams) ==
    IF teams = {} THEN 0
    ELSE LET t == CHOOSE x \in teams : TRUE
         IN  Len(teamMembers[t]) + TotalEntries(teams \ {t})

\* number of successful submissions so far (each appends one membership entry)
Submissions == TotalEntries(TeamIds)

\* C7: after k successful submissions the records are exactly those stored
\* under 1..k, each carrying its key as id, and the k-th submission created
\* (and announced) the record with id k.
C7_IdsSequential ==
    /\ \A i \in OkrIds :
          IF i \in 1 .. Submissions
          THEN encryptedOkrs[i].id = i /\ encryptedOkrs[i].owner \in Owners
          ELSE encryptedOkrs[i] = EmptyOKR
    /\ last.op = "submitEncryptedOKR" =>
          /\ Len(last.events) = 1
          /\ last.events[1].name = "OKRSubmitted"
          /\ last.events[1].id = Submissions
          /\ last.events[1].owner = encryptedOkrs[Submissions].owner

\* C7 witness: the second submission, made after a recompute and a decryption
\* request, created record 2.
C7_Witness ==
    /\ last.op = "submitEncryptedOKR"
    /\ Submissions = 2
    /\ encryptedOkrs[2].id = 2
    /\ counterRequest = 1

\* ------------------------------------------------------------- recompute
\* C8: a recompute(T) that follows a recompute(T) with no submission in
\* between stores the same encryptedSum as before.
C8_RecomputeIdempotent ==
    [][\A t \in TeamIds :
         (/\ CallStep("recomputeTeamAggregate")
          /\ last'.team = t
          /\ recordsAtRecompute[t] = okrCount)
         => teamAggregates'[t].encryptedSum = teamAggregates[t].encryptedSum]_vars

\* C8 witness: team 1 was recomputed again at time 2; the one submission
\* precedes the earlier recompute, whose sum 40 went into request 0.
C8_Witness ==
    /\ JustRecomputed
    /\ last.team = 1
    /\ okrCount = 1
    /\ encryptedOkrs[1].timestamp = 1
    /\ counterRequest = 1
    /\ requestToTeamId[0] = 1
    /\ requestedHandles[0] = U32(0, 40)
    /\ teamAggregates[1].encryptedSum = U32(0, 40)
    /\ teamAggregates[1].lastUpdated = 2

\* a record that is not its owner's greatest-id record
Stale(i) ==
    /\ i \in 1 .. okrCount
    /\ \E j \in (i + 1) .. okrCount : encryptedOkrs[j].owner = encryptedOkrs[i].owner

\* the aggregate recompute(T) produces from the records `okrs`
RecomputedSum(okrs, teamId) ==
    AccumulateFrom(okrs, teamMembers[teamId], 1, AccInit(teamId), 0).acc

\* C9: latest-wins.  The aggregate stored by recompute(T) does not depend on
\* the progress of any stale record: whatever value a stale record held, the
\* same aggregate results.
C9_LatestWins ==
    JustRecomputed =>
        \A i \in 1 .. okrCount, v \in ProgressValues :
            Stale(i) =>
                teamAggregates[last.team].encryptedSum =
                    RecomputedSum([encryptedOkrs EXCEPT ![i].encryptedProgress = v],
                                  last.team)

\* C9 witness: an owner submitted progress 40 and later 2^32 - 1; the team's
\* recompute stored exactly the later value.
C9_Witness ==
    /\ JustRecomputed
    /\ okrCount = 2
    /\ encryptedOkrs[1].owner = encryptedOkrs[2].owner
    /\ encryptedOkrs[1].encryptedProgress = U32(0, 40)
    /\ encryptedOkrs[2].encryptedProgress = MaxUint32
    /\ Len(teamMembers[last.team]) = 1
    /\ teamAggregates[last.team].encryptedSum = MaxUint32

\* C10: recompute(T) performs exactly one homomorphic addition per entry of
\* Membership[T], whichever members have initialized progress.
C10_OneAddPerEntry ==
    JustRecomputed => last.adds = Len(teamMembers[last.team])

\* ---------------------------------------------------------- authorization
\* the policy the guard onlyTeamMember is named after: the caller is a
\* recorded member of the team
IsMember(sender, teamId) ==
    \E i \in 1 .. Len(teamMembers[teamId]) : teamMembers[teamId][i] = sender

\* C11: a requestDecryption by a caller the authorization policy denies (one
\* who is no recorded member of the team) is refused: it allocates no
\* request, emits no event and changes no state.
C11_DeniedCallerChangesNothing ==
    [][(/\ CallStep("requestTeamAggregateDecryption")
        /\ ~IsMember(last'.sender, last'.team))
         => /\ last'.result # "ok"
            /\ last'.events = <<>>
            /\ UNCHANGED store]_vars


\* ------------------------------------------------------- record immutability
\* C12: a stored record is immutable. In every step (submit, recompute,
\* requestDecryption, callback, passage of time) each record that exists keeps
\* its id, owner, three ciphertexts and timestamp and stays in the store; a
\* submission creates a new record, owned by the submitter, under a new id.
C12_RecordsImmutable ==
    [][/\ \A k \in 1 .. okrCount :
            /\ k <= okrCount'
            /\ encryptedOkrs'[k] = encryptedOkrs[k]
       /\ CallStep("submitEncryptedOKR")
            => /\ okrCount' > okrCount
               /\ encryptedOkrs'[okrCount'].owner = last'.sender]_vars

\* the same owner has submitted twice with different progress, and a request
\* and its callback have run since: both records are stored as submitted
C12_Witness ==
    /\ okrCount = 2
    /\ encryptedOkrs[1].owner = "A"
    /\ encryptedOkrs[2].owner = "A"
    /\ encryptedOkrs[1].encryptedProgress = U32(0, 40)
    /\ encryptedOkrs[1].timestamp = 1
    /\ encryptedOkrs[2].encryptedProgress = MaxUint32
    /\ encryptedOkrs[2].timestamp = 2
    /\ fulfilled = {0}
    /\ last.op = "decryptTeamAggregate"


\* -------------------------------------------------------- membership growth
IsPrefix(s, t) == Len(s) <= Len(t) /\ \A i \in 1 .. Len(s) : t[i] = s[i]

\* C13: a successful submit for team T appends exactly one entry, the
\* submitter, at the end of T's member list, also when the submitter is
\* already listed, and leaves every other team's list unchanged; in every
\* step each list is a prefix of its successor, and only submit changes one.
C13_MembershipAppendOnly ==
    [][/\ \A t \in TeamIds : IsPrefix(teamMembers[t], teamMembers'[t])
       /\ IF CallStep("submitEncryptedOKR") /\ last'.result = "ok"
          THEN /\ teamMembers'[last'.team] =
                      teamMembers[last'.team] \o <<last'.sender>>
               /\ \A t \in TeamIds \ {last'.team} :
                      teamMembers'[t] = teamMembers[t]
          ELSE teamMembers' = teamMembers]_vars

\* an owner already listed in a team has just submitted to it again
C13_Witness ==
    /\ last.op = "submitEncryptedOKR"
    /\ last.sender = "A"
    /\ last.team = 0
    /\ teamMembers[0] = <<"A", "A">>
    /\ teamMembers[1] = <<>>


\* --------------------------------------------------------- request lifecycle
\* C14: a request moves None -> Pending -> Fulfilled and never backwards. In
\* every step an issued request stays issued and keeps its team, a fulfilled
\* request stays fulfilled, a request becomes issued only as the fresh id
\* returned by a successful requestDecryption, and a request becomes
\* fulfilled only from Pending and only by a callback for its own id carrying
\* a valid proof.
C14_RequestLifecycle ==
    [][/\ \A r \in Issued :
            /\ r \in Issued'
            /\ requestToTeamId'[r] = requestToTeamId[r]
       /\ fulfilled \subseteq fulfilled'
       /\ \A r \in fulfilled' \ fulfilled :
            /\ r \in Pending
            /\ CallStep("decryptTeamAggregate")
            /\ last'.req = r
            /\ last'.valid
            /\ last'.result = "ok"
       /\ \A r \in Issued' \ Issued :
            /\ CallStep("requestTeamAggregateDecryption")
            /\ last'.result = "ok"
            /\ last'.req = r
            /\ requestToTeamId'[r] = last'.team
            /\ Issued' = Issued \cup {r}]_vars

\* request 0 (team 1) is fulfilled, request 1 (team 0) is still pending, and a
\* recompute has run since
C14_Witness ==
    /\ counterRequest = 2
    /\ requestToTeamId[0] = 1
    /\ requestToTeamId[1] = 0
    /\ fulfilled = {0}
    /\ Pending = {1}
    /\ last.op = "recomputeTeamAggregate"


\* ----------------------------------------------------------------- views
\* C15: getRecord(id) returns the stored record for 1 <= id <= okrCount and
\* NotFound for every other id, 0 and ids not yet assigned included.
C15_UnknownRecordNotFound ==
    \A okrId \in OkrIds :
        IF 1 <= okrId /\ okrId <= okrCount
        THEN /\ getEncryptedOKR(okrId).result = "ok"
             /\ getEncryptedOKR(okrId).value[1] = okrId
             /\ getEncryptedOKR(okrId).value[2] # NoOwner
        ELSE getEncryptedOKR(okrId).result = "NotFound"

\* C16: getAggregate(T) yields NotFound for a team on which recompute has
\* never run, and otherwise the encryptedSum and lastUpdated the most recent
\* recompute(T) stored.
C16_UnknownAggregateNotFound ==
    \A teamId \in TeamIds :
        IF recordsAtRecompute[teamId] < 0
        THEN getEncryptedAggregate(teamId).result = "NotFound"
        ELSE /\ getEncryptedAggregate(teamId).result = "ok"
             /\ isInitialized(getEncryptedAggregate(teamId).value[1])
             /\ getEncryptedAggregate(teamId).value[2] >= 1


\* ------------------------------------------------- snapshot at request time
\* C17: with a faithful oracle, the cleartext AggregateDecrypted carries for
\* request r is the plaintext of the team's encryptedSum as stored when r was
\* issued: a successful request hands the oracle the sum stored at that
\* moment, no later step (submit, recompute, another request) changes what
\* the oracle holds for r, and the callback emits the plaintext of that
\* ciphertext for the team recorded for r.
C17_DecryptsAggregateAtRequestTime ==
    [][/\ (CallStep("requestTeamAggregateDecryption") /\ last'.result = "ok")
            => requestedHandles'[last'.req] =
                   teamAggregates[last'.team].encryptedSum
       /\ \A r \in Issued : requestedHandles'[r] = requestedHandles[r]
       /\ (CallStep("decryptTeamAggregate") /\ last'.result = "ok")
            => last'.events =
                   <<AggregateDecrypted(requestToTeamId[last'.req],
                                        requestedHandles[last'.req])>>]_vars

\* a request for team 1 was issued while its aggregate was 40; a submit and a
\* recompute(1) followed; the callback then emitted 40 although the aggregate
\* stored at callback time is another value
C17_Witness ==
    /\ last.op = "decryptTeamAggregate"
    /\ last.result = "ok"
    /\ last.req = 0
    /\ last.team = 1
    /\ last.clear = U32(0, 40)
    /\ requestedHandles[0] = U32(0, 40)
    /\ okrCount = 2
    /\ recordsAtRecompute[1] = 2
    /\ teamAggregates[1].encryptedSum # U32(0, 40)

\* C18: submit never changes a TeamAggregate. The stored encryptedSum and
\* lastUpdated of a team change only in a recompute of that team, and a
\* successful requestDecryption packages the stored value, leaving it as it
\* is, not a value that takes later submissions into account.
C18_AggregateOnlyByRecompute ==
    [][/\ CallStep("submitEncryptedOKR") => teamAggregates' = teamAggregates
       /\ \A t \in TeamIds :
            teamAggregates'[t] # teamAggregates[t]
                => CallStep("recomputeTeamAggregate") /\ last'.team = t
       /\ (CallStep("requestTeamAggregateDecryption") /\ last'.result = "ok")
            => /\ teamAggregates' = teamAggregates
               /\ toBytes32(teamAggregates[last'.team].encryptedSum) =
                      requestedHandles'[last'.req]]_vars

\* a request has just packaged a stored aggregate that a recompute would now
\* change, because a record was submitted after the team's last recompute
C18_Witness ==
    /\ last.op = "requestTeamAggregateDecryption"
    /\ last.result = "ok"
    /\ recordsAtRecompute[last.team] = 1
    /\ okrCount = 2
    /\ requestedHandles[last.req] = teamAggregates[last.team].encryptedSum
    /\ RecomputedSum(encryptedOkrs, last.team) #
           teamAggregates[last.team].encryptedSum


\* ------------------------------------------------- latest record across teams
Plain(ct) == IF ct = Uninit THEN <<0, 0>> ELSE ct

\* sum of one 16-bit half over the first n entries of `members`, the entries
\* of `owner` counted with plaintext p and every other entry with its owner's
\* latest progress
RECURSIVE SumHalfWith(_, _, _, _, _)
SumHalfWith(members, n, half, owner, p) ==
    IF n = 0 THEN 0
    ELSE SumHalfWith(members, n - 1, half, owner, p)
         + (IF members[n] = owner THEN p[half] ELSE LatestPlain(members[n])[half])

PlainSumWith(teamId, owner, p) ==
    LET members == teamMembers[teamId]
        hi == SumHalfWith(members, Len(members), 1, owner, p)
        lo == SumHalfWith(members, Len(members), 2, owner, p)
    IN  Mod32(<<hi + (lo \div Pow16), lo % Pow16>>)

\* C19: a member's latest record is resolved over the whole store, not per
\* team. When owner A, listed in Membership[T1], submits progress p to another
\* team T2, the aggregate a recompute(T1) produces from then on counts p for
\* each of A's entries in T1 (A's earlier submission to T1 contributes
\* nothing), and a recompute step stores exactly that aggregate.
C19_LatestAcrossTeams ==
    [][/\ CallStep("submitEncryptedOKR") =>
            \A t1 \in TeamIds \ {last'.team} :
                IsMember(last'.sender, t1) =>
                    RecomputedSum(encryptedOkrs, t1)' =
                        PlainSumWith(t1, last'.sender,
                            Plain(encryptedOkrs'[okrCount'].encryptedProgress))
       /\ CallStep("recomputeTeamAggregate") =>
            teamAggregates'[last'.team].encryptedSum =
                RecomputedSum(encryptedOkrs, last'.team)]_vars

\* A submitted 40 to team 1 (the aggregate of team 1 was requested while it
\* was 40), then submitted 2^32 - 1 to team 0; the recompute(1) that just ran
\* stored 2^32 - 1 for A's single entry in team 1
C19_Witness ==
    /\ JustRecomputed
    /\ last.team = 1
    /\ teamMembers[1] = <<"A">>
    /\ teamMembers[0] = <<"A">>
    /\ encryptedOkrs[1].encryptedProgress = U32(0, 40)
    /\ encryptedOkrs[2].encryptedProgress = MaxUint32
    /\ requestToTeamId[0] = 1
    /\ requestedHandles[0] = U32(0, 40)
    /\ teamAggregates[1].encryptedSum = MaxUint32


\* ------------------------------------------------------ concurrent requests
\* C20: every successful requestDecryption returns an id different from all
\* ids returned before and records its team under it without touching the
\* mapping of any other request, so several requests can be pending at once;
\* a successful callback, whatever the order of arrival, is attributed to the
\* team recorded for its own id.
C20_RequestsIndependent ==
    [][/\ (CallStep("requestTeamAggregateDecryption") /\ last'.result = "ok")
            => /\ last'.req \notin Issued
               /\ requestToTeamId'[last'.req] = last'.team
               /\ Pending' = Pending \cup {last'.req}
               /\ \A r \in Issued : requestToTeamId'[r] = requestToTeamId[r]
       /\ (CallStep("decryptTeamAggregate") /\ last'.result = "ok")
            => /\ last'.req \in Issued
               /\ last'.events =
                      <<AggregateDecrypted(requestToTeamId[last'.req],
                                           last'.clear)>>]_vars

\* two requests for different teams were pending at once and the callback of
\* the later one (team 1) arrived first
C20_Witness ==
    /\ counterRequest = 2
    /\ requestToTeamId[0] = 0
    /\ requestToTeamId[1] = 1
    /\ fulfilled = {1}
    /\ Pending = {0}
    /\ last.op = "decryptTeamAggregate"
    /\ last.result = "ok"
    /\ last.req = 1
    /\ last.events = <<AggregateDecrypted(1, last.clear)>>


\* ------------------------------------------------------- aggregate lifecycle
\* C21: the aggregate of a team only moves Empty -> Computed. Once
\* recompute(T) has run, the stored sum of T is an initialized ciphertext in
\* every later state, whatever the membership and the members' progress
\* (initialized or not), and a requestDecryption(T) does not fail with
\* EmptyAggregate.
C21_ComputedStaysComputed ==
    \A t \in TeamIds :
        recordsAtRecompute[t] >= 0 =>
            /\ isInitialized(teamAggregates[t].encryptedSum)
            /\ (last.op = "requestTeamAggregateDecryption" /\ last.team = t)
                   => last.result # "No aggregate"

\* team 1 was recomputed when its only member's latest progress was an
\* uninitialized ciphertext; a submission followed, and the request that
\* just ran succeeded
C21_Witness ==
    /\ last.op = "requestTeamAggregateDecryption"
    /\ last.result = "ok"
    /\ last.team = 1
    /\ recordsAtRecompute[1] = 1
    /\ okrCount = 2
    /\ teamMembers[1] = <<"A">>
    /\ encryptedOkrs[1].owner = "A"
    /\ encryptedOkrs[1].encryptedProgress = Uninit
    /\ teamAggregates[1].encryptedSum = U32(0, 0)


\* C22: recompute(T) on a team whose membership list is empty stores an
\* aggregate of plaintext zero and makes the aggregate Computed; a
\* requestDecryption(T) that follows succeeds and records a pending request
\* for T that carries that zero aggregate.
C22_EmptyTeamRecomputesToZero ==
    [][/\ (CallStep("recomputeTeamAggregate") /\ teamMembers[last'.team] = <<>>)
            => /\ teamAggregates'[last'.team].encryptedSum = asEuint32(0)
               /\ isInitialized(teamAggregates'[last'.team].encryptedSum)
       /\ (/\ CallStep("requestTeamAggregateDecryption")
           /\ teamMembers[last'.team] = <<>>
           /\ recordsAtRecompute[last'.team] >= 0)
            => /\ last'.result = "ok"
               /\ last'.req \in Pending' \ Pending
               /\ requestToTeamId'[last'.req] = last'.team
               /\ requestedHandles'[last'.req] = asEuint32(0)]_vars

\* a team nobody ever submitted to was recomputed, and the request that just
\* ran for it is pending with the zero aggregate
C22_Witness ==
    /\ last.op = "requestTeamAggregateDecryption"
    /\ last.result = "ok"
    /\ teamMembers[last.team] = <<>>
    /\ okrCount > 0
    /\ last.req \in Pending
    /\ requestedHandles[last.req] = U32(0, 0)
    /\ teamAggregates[last.team].lastUpdated = 2


\* C23: recompute(T) changes only TeamAggregate[T]. The record store, the
\* record counter, every membership list, every request mapping (and what the
\* oracle holds) and the aggregates of all other teams are unchanged, and the
\* stored aggregate is determined by the records and membership at call time
\* alone: the team's id, the sum over the membership entries of the owners'
\* latest progress (mod 2^32), and the time of the call.
C23_RecomputeFrame ==
    [][CallStep("recomputeTeamAggregate") =>
          /\ UNCHANGED <<okrCount, encryptedOkrs, teamMembers, requestToTeamId,
                         counterRequest, requestedHandles, fulfilled>>
          /\ \A t \in TeamIds \ {last'.team} :
                teamAggregates'[t] = teamAggregates[t]
          /\ teamAggregates'[last'.team] =
                [idHash |-> last'.team,
                 encryptedSum |-> Mod32(PlainSum(last'.team)),
                 lastUpdated |-> now]]_vars

\* team 1 has just been recomputed over a different membership than before
\* while team 0 keeps the aggregate of its own earlier recompute and a
\* pending request keeps its mapping
C23_Witness ==
    /\ JustRecomputed
    /\ last.team = 1
    /\ teamAggregates[1].encryptedSum = U32(0, 40)
    /\ teamAggregates[1].lastUpdated = 2
    /\ teamAggregates[0].encryptedSum = MaxUint32
    /\ teamAggregates[0].lastUpdated = 1
    /\ requestToTeamId[0] = 1
    /\ requestedHandles[0] = U32(0, 0)
    /\ Pending = {0}


\* ------------------------------------------------------- members own records
\* the scan for `owner` ends at a record of that owner (the return of line
\* 237), not at the zero fallback of line 243
ScanFinds(owner) ==
    LET v == ScanVisits(encryptedOkrs, owner, okrCount)
    IN  v # <<>> /\ encryptedOkrs[v[Len(v)]].owner = owner

\* C24: in every reachable state every owner listed in any team's membership
\* owns at least one stored record, so the latest-record lookup recompute
\* makes for a member finds a record and does not take the zero fallback.
C24_MembersOwnRecords ==
    \A t \in TeamIds :
        \A i \in 1 .. Len(teamMembers[t]) :
            /\ OwnedIds(teamMembers[t][i]) # {}
            /\ ScanFinds(teamMembers[t][i])

\* both owners are listed (in different teams), each owns one record, and a
\* recompute has just looked a member up
C24_Witness ==
    /\ JustRecomputed
    /\ teamMembers[0] = <<"A">>
    /\ teamMembers[1] = <<"B">>
    /\ OwnedIds("A") = {1}
    /\ OwnedIds("B") = {2}
    /\ last.team = 1
    /\ last.adds = 1


\* ------------------------------------------------------------- the counter
StoredIds == {i \in OkrIds : encryptedOkrs[i] # EmptyOKR}

NumSubmittedEvents(events) ==
    Len(SelectSeq(events, LAMBDA e : e.name = "OKRSubmitted"))

\* the counter against the record store and the membership lists
CounterMatchesStore ==
    /\ okrCount = Cardinality(StoredIds)
    /\ StoredIds = 1 .. okrCount
    /\ okrCount = TotalEntries(TeamIds)

\* C25: in every reachable state the record counter equals the number of
\* stored records, which are exactly those of ids 1..counter, and the total
\* number of membership entries over all teams; and it counts the
\* OKRSubmitted events: none has been emitted initially and every call
\* advances the counter by the number of such events it emits.
C25_CounterCountsEverything ==
    [][/\ CounterMatchesStore
       /\ CounterMatchesStore'
       /\ IF last'.nonce # last.nonce
          THEN okrCount' = okrCount + NumSubmittedEvents(last'.events)
          ELSE okrCount' = okrCount]_vars

\* two submissions, one to each team, the second just made; a request was
\* issued in between
C25_Witness ==
    /\ last.op = "submitEncryptedOKR"
    /\ okrCount = 2
    /\ Len(teamMembers[0]) = 1
    /\ Len(teamMembers[1]) = 1
    /\ StoredIds = {1, 2}
    /\ counterRequest = 1


\* ------------------------------------------------------------ 32-bit sums
\* C26: the aggregate is a 32-bit encrypted integer. The plaintext of the sum
\* recompute(T) stores is the sum of the contributing progress values modulo
\* 2^32, and it is the true integer sum exactly when that sum is below 2^32.
C26_SumWrapsAt32Bits ==
    JustRecomputed =>
        LET stored == teamAggregates[last.team].encryptedSum
            exact == PlainSum(last.team)
        IN  /\ stored = <<exact[1] % Pow16, exact[2]>>
            /\ (stored = exact) <=> (exact[1] < Pow16)

\* two entries of progress 2^32 - 1 each: the true sum 2^33 - 2 is stored as
\* 2^32 - 2
C26_Witness ==
    /\ JustRecomputed
    /\ Len(teamMembers[last.team]) = 2
    /\ PlainSum(last.team) = <<(2 * Pow16) - 1, Pow16 - 2>>
    /\ teamAggregates[last.team].encryptedSum = U32(Pow16 - 1, Pow16 - 2)


\* ---------------------------------------------------------------- web client
ListedKeys == {parseKeys(okrKeys)[i] : i \in 1 .. Len(parseKeys(okrKeys))}

\* C27: every key listed in okr_keys_<account> has a stored okr_<key> blob
\* in every reachable state, also when submitOKR fails between its two
\* writes: the blob is written before the key index, so a failure can leave
\* an unlisted blob but never a listed key without a blob.
C27_ListedKeysHaveBlobs == ListedKeys \subseteq okrBlobs

\* one submission completed and is listed; another wrote its blob and then
\* failed, leaving a blob that no key lists; no call is under way
C27_Witness ==
    /\ \A s \in Sessions : sessionPc[s] = "idle"
    /\ ListedKeys # {}
    /\ ListedKeys \subseteq submitted
    /\ \E k \in okrBlobs : k \notin ListedKeys /\ k \notin submitted

\* C28: when two submitOKR calls of the same account run concurrently and
\* both complete successfully, both new ids are in okr_keys_<account>
\* afterwards, however their getData and setData steps interleave: once no
\* call is under way, every id whose submission completed is listed.
C28_ConcurrentSubmitsBothListed ==
    (\A s \in Sessions : sessionPc[s] = "idle") => submitted \subseteq ListedKeys


\* ------------------------------------------------------- the scan's index
\* C29: the latest-record scan terminates for every record count, 0
\* included, and never takes its index below 1: it reads the ids from the
\* counter downwards, at most down to 1, stops at the first record owned by
\* the given identity and returns that record's progress, and returns the
\* zero ciphertext when the identity owns no record.
C29_ScanStaysInRange ==
    \A owner \in Owners \cup {NoOwner} :
        LET v == ScanVisits(encryptedOkrs, owner, okrCount)
            found == findLatestEncryptedProgress(encryptedOkrs, owner)
        IN  /\ Len(v) <= okrCount
            /\ \A k \in 1 .. Len(v) : v[k] = okrCount - k + 1 /\ v[k] >= 1
            /\ IF OwnedIds(owner) = {}
               THEN Len(v) = okrCount /\ found = asEuint32(0)
               ELSE /\ v[Len(v)] = SetMax(OwnedIds(owner))
                    /\ found = encryptedOkrs[SetMax(OwnedIds(owner))].encryptedProgress

\* two records, both of A: the scan for B reads ids 2 and 1 and falls back to
\* zero, the scan for A stops at id 2
C29_Witness ==
    /\ okrCount = 2
    /\ OwnedIds("B") = {}
    /\ ScanVisits(encryptedOkrs, "B", okrCount) = <<2, 1>>
    /\ findLatestEncryptedProgress(encryptedOkrs, "B") = asEuint32(0)
    /\ ScanVisits(encryptedOkrs, "A", okrCount) = <<2>>
    /\ encryptedOkrs[2].encryptedProgress = MaxUint32
    /\ findLatestEncryptedProgress(encryptedOkrs, "A") = MaxUint32

====
